---- MODULE Spec2Model ----
(***************************************************************************)
(* Model of the device/network state manager of scripts/iwd.py:            *)
(* NetworkManager (run_command, get_devices, scan_networks,                *)
(* connect_to_network, disconnect_network, toggle_device_power).           *)
(*                                                                         *)
(* Text is modelled as TLA+ strings and parsed character by character, the *)
(* way the Python string methods used by the code do it.                   *)
(***************************************************************************)
EXTENDS Integers, Sequences, FiniteSets, TLC

VARIABLES
    devices,            \* NetworkManager.devices
    networks,           \* NetworkManager.networks
    call,               \* the last completed call
    connection_status,  \* IwdTUI.connection_status
    active_connection,  \* IwdTUI.active_connection
    frame,              \* the NetworkManager call in flight, step by step
    current_screen,     \* IwdTUI.current_screen
    selected_index,     \* IwdTUI.selected_index
    running,            \* running in IwdTUI.run
    handled             \* the last key handled: what it did and what it read

vars == <<devices, networks, call, connection_status, active_connection, frame,
          current_screen, selected_index, running, handled>>

\* The screen, the selection and the main loop of IwdTUI.
tui == <<current_screen, selected_index, running, handled>>

\* The fields of IwdTUI that update_status writes.
status == <<connection_status, active_connection>>

\* The value of frame when no NetworkManager call is in flight.
Idle == [op |-> "idle"]

(***************************************************************************)
(* Bounds of the model.                                                    *)
(***************************************************************************)
\* Largest number of data rows in a listing the utility prints.
MaxRows == 2

\* Largest number of data rows in a listing of the parser specifications.
MaxParseRows == 2

(***************************************************************************)
(* Python string methods, as the code uses them.                           *)
(***************************************************************************)
Char(s, i) == SubSeq(s, i, i)

\* Characters str.split() and str.strip() treat as whitespace.
IsSpace(c) == c \in {" ", "\t", "\n", "\r"}

\* sub in s
Contains(s, sub) ==
    IF Len(sub) = 0 THEN TRUE
    ELSE \E i \in 1..(Len(s) - Len(sub) + 1) : SubSeq(s, i, i + Len(sub) - 1) = sub

\* s.startswith(p)
StartsWith(s, p) == Len(s) >= Len(p) /\ SubSeq(s, 1, Len(p)) = p

\* bool(s.strip()): some character of s is not whitespace
StripNonEmpty(s) == \E i \in 1..Len(s) : ~IsSpace(Char(s, i))

\* The k-th smallest element of a finite set of numbers.
Nth(P, k) == CHOOSE i \in P : Cardinality({j \in P : j < i}) = k - 1

\* s.split(sep) for a one-character sep: the fields between the separators,
\* empty fields kept
Split(s, sep) ==
    LET P == {i \in 1..Len(s) : Char(s, i) = sep}
        n == Cardinality(P)
        from(k) == IF k = 1 THEN 1 ELSE Nth(P, k - 1) + 1
        to(k) == IF k = n + 1 THEN Len(s) ELSE Nth(P, k) - 1
    IN  [k \in 1..(n + 1) |-> SubSeq(s, from(k), to(k))]

\* s.split(): the maximal runs of non-whitespace characters
SplitWS(s) ==
    LET B == {i \in 1..Len(s) :
                ~IsSpace(Char(s, i)) /\ (i = 1 \/ IsSpace(Char(s, i - 1)))}
        E == {i \in 1..Len(s) :
                ~IsSpace(Char(s, i)) /\ (i = Len(s) \/ IsSpace(Char(s, i + 1)))}
    IN  [k \in 1..Cardinality(B) |-> SubSeq(s, Nth(B, k), Nth(E, k))]

RECURSIVE ReplaceFrom(_, _, _, _)
\* s.replace(old, new): every non-overlapping occurrence, left to right
ReplaceFrom(s, old, new, i) ==
    IF i > Len(s) THEN ""
    ELSE IF i + Len(old) - 1 <= Len(s) /\ SubSeq(s, i, i + Len(old) - 1) = old
         THEN new \o ReplaceFrom(s, old, new, i + Len(old))
    ELSE Char(s, i) \o ReplaceFrom(s, old, new, i + 1)

Replace(s, old, new) == ReplaceFrom(s, old, new, 1)

RECURSIVE StripLeft(_)
StripLeft(s) ==
    IF Len(s) > 0 /\ IsSpace(Char(s, 1)) THEN StripLeft(SubSeq(s, 2, Len(s))) ELSE s

RECURSIVE StripRight(_)
StripRight(s) ==
    IF Len(s) > 0 /\ IsSpace(Char(s, Len(s))) THEN StripRight(SubSeq(s, 1, Len(s) - 1)) ELSE s

\* s.strip()
Strip(s) == StripRight(StripLeft(s))

DigitChars == "0123456789"

IsDigit(c) == \E k \in 1..10 : Char(DigitChars, k) = c

DigitValue(c) == (CHOOSE k \in 1..10 : Char(DigitChars, k) = c) - 1

RECURSIVE ParseDigits(_, _, _)
\* The digits of a Python integer literal body: decimal digits, with single
\* underscores allowed between digits.  [ok, val]
ParseDigits(s, i, val) ==
    IF i > Len(s) THEN [ok |-> TRUE, val |-> val]
    ELSE IF IsDigit(Char(s, i))
         THEN ParseDigits(s, i + 1, 10 * val + DigitValue(Char(s, i)))
    ELSE IF /\ Char(s, i) = "_"
            /\ i > 1 /\ IsDigit(Char(s, i - 1))
            /\ i < Len(s) /\ IsDigit(Char(s, i + 1))
         THEN ParseDigits(s, i + 1, val)
    ELSE [ok |-> FALSE, val |-> 0]

\* int(s): optional surrounding whitespace, optional sign, digits.
\* ok = FALSE stands for ValueError.
ParseInt(s) ==
    LET t == Strip(s)
        signed == Len(t) > 0 /\ Char(t, 1) \in {"+", "-"}
        body == IF signed THEN SubSeq(t, 2, Len(t)) ELSE t
        d == IF Len(body) = 0 THEN [ok |-> FALSE, val |-> 0] ELSE ParseDigits(body, 1, 0)
    IN  [ok |-> d.ok,
         val |-> IF signed /\ Char(t, 1) = "-" THEN 0 - d.val ELSE d.val]

\* abs(n)
Abs(n) == IF n < 0 THEN 0 - n ELSE n

RECURSIVE JoinFrom(_, _, _)
JoinFrom(seq, sep, i) ==
    IF i > Len(seq) THEN ""
    ELSE IF i = Len(seq) THEN seq[i]
    ELSE seq[i] \o sep \o JoinFrom(seq, sep, i + 1)

\* sep.join(seq)
Join(seq, sep) == JoinFrom(seq, sep, 1)

(***************************************************************************)
(* Program constants.                                                      *)
(***************************************************************************)
\* subprocess.run(..., timeout=10)
Timeout == 10

\* output.split('\n')[3:] in get_devices
DeviceHeaderLines == 3

\* output.split('\n')[4:] in scan_networks
NetworkHeaderLines == 4

\* len(parts) >= 3 in get_devices
MinDeviceTokens == 3

\* signal = 50  # Default
DefaultSignal == 50

\* time.sleep(2) in scan_networks
ScanDelay == 2

\* time.sleep(2) in connect_to_network
VerifyDelay == 2

(***************************************************************************)
(* Data model.                                                             *)
(***************************************************************************)
\* NetworkDevice(name, type, powered, connected, network="", address="")
NetworkDevice(name, type, powered, connected, network) ==
    [name |-> name, type |-> type, powered |-> powered,
     connected |-> connected, network |-> network, address |-> ""]

\* WirelessNetwork(ssid, security, signal_strength, connected=False,
\*                 known=False, frequency="")
WirelessNetwork(ssid, security, signal_strength, connected) ==
    [ssid |-> ssid, security |-> security, signal_strength |-> signal_strength,
     connected |-> connected, known |-> FALSE, frequency |-> ""]

\* seq[n:]
Drop(seq, n) == SubSeq(seq, n + 1, Len(seq))

(***************************************************************************)
(* The external process, as subprocess.run sees it: whether it could be    *)
(* started, how long it ran, its exit code and its standard output.  rows  *)
(* records the table rows the utility rendered into stdout.                *)
(***************************************************************************)
Exec(started, duration, code, stdout, rows) ==
    [started |-> started, duration |-> duration, code |-> code,
     stdout |-> stdout, rows |-> rows]

(***************************************************************************)
(* The utility: what a command can do when the program runs it.            *)
(***************************************************************************)
\* All sequences over S of length at most n.
SeqsUpTo(S, n) == UNION {[1..k -> S] : k \in 0..n}

\* A listing: every line ends with a newline.
Render(header, rows) == Join(header \o rows, "\n") \o "\n"

DeviceHeader == <<"Devices", "-------", "Name Type Powered State Network">>

NetworkHeader == <<"Available networks", "-------", "Name Security Signal", "-------">>

\* The process ran to completion in time with exit code 0 and this output.
Ok(stdout, rows) == Exec(TRUE, 0, 0, stdout, rows)

\* The ways a command fails: the binary is missing, the time bound passes,
\* the process exits non-zero (printing msg).
Failures(msgs) ==
    {Exec(FALSE, 0, 0, "", <<>>), Exec(TRUE, Timeout + 1, 0, "", <<>>)}
    \cup {Exec(TRUE, 0, 1, m, <<>>) : m \in msgs}

\* The command is not run in this call.
NotRun == Exec(FALSE, 0, 0, "", <<>>)

\* Data rows of the device listing: name, type, state, network.
DeviceRows ==
    {"wlan0 station connected HomeNet",
     "eth0 wired off"}

\* Data rows of the network listing.
NetworkRows ==
    {"HomeNet PSK -67dBm",
     "> OfficeWiFi open -55dBm"}

\* Rows of the device listing for the parser specification: well-formed rows,
\* rows with fewer than three tokens, blank and separator lines, a row that
\* begins with the separator character, a row with leading blanks.
ParseDeviceRows ==
    {"wlan0 station on connected HomeNet",
     "wlan0 station connected HomeNet",
     "wlan0 station off",
     "wlan1 station on disconnected",
     "wlan1 station off phy1",
     "eth0 wired off",
     "eth0 up",
     "",
     "-------",
     "-w0 station on",
     "  wlan2 ap on",
     "p2p0 wired connected"}

\* Rows of the network listing for the parser specification.
ParseNetworkRows ==
    {"HomeNet PSK -67dBm",
     "> OfficeWiFi 802.1X -55dBm",
     "Cafe open",
     "Lab PSK xdBm",
     "Mesh -67dBm -40dBm",
     "Guest -67dBm dBm",
     "Depot open 67dBm",
     "",
     "-------",
     "-Dash PSK -20dBm"}

DeviceListExecs ==
    {Ok(Render(DeviceHeader, rows), rows) : rows \in SeqsUpTo(DeviceRows, MaxRows)}
    \cup Failures({"Operation failed"})

NetworkListExecs ==
    {Ok(Render(NetworkHeader, rows), rows) : rows \in SeqsUpTo(NetworkRows, MaxRows)}
    \cup Failures({"Operation failed"})

\* Data rows of the device listing of a machine with two wireless adapters.
StationRows ==
    {"wlan0 station connected HomeNet",
     "wlan1 station connected OfficeWiFi",
     "wlan1 station disconnected",
     "eth0 wired off"}

StationListExecs ==
    {Ok(Render(DeviceHeader, rows), rows) : rows \in SeqsUpTo(StationRows, MaxRows)}
    \cup Failures({"Operation failed"})

\* The network listings of at most one row.
ShortNetworkListExecs == {e \in NetworkListExecs : Len(e.rows) <= 1}

\* Data rows of the device listing that report each device's power.
PowerRows ==
    {"wlan0 station on",
     "wlan0 station off",
     "wlan1 station on",
     "wlan1 station off",
     "eth0 wired off"}

PowerListExecs ==
    {Ok(Render(DeviceHeader, rows), rows) : rows \in SeqsUpTo(PowerRows, MaxRows)}
    \cup Failures({"Operation failed"})

\* The listings the screens are fed: none, one or two rows, or a failure.
UiDeviceExecs ==
    {e \in DeviceListExecs :
        /\ e.started
        /\ e.duration <= Timeout
        /\ e.rows \in {<<>>, <<"wlan0 station connected HomeNet">>,
                        <<"wlan0 station connected HomeNet", "eth0 wired off">>}}

UiNetworkExecs ==
    {e \in NetworkListExecs :
        /\ e.started
        /\ e.duration <= Timeout
        /\ e.rows \in {<<>>, <<"HomeNet PSK -67dBm">>,
                        <<"HomeNet PSK -67dBm", "> OfficeWiFi open -55dBm">>}}

\* The keys the handlers tell apart.
Keys == {"UP", "DOWN", "ENTER", "r", "b", "q"}

\* The listings and failures of the step-by-step specification.
StepDeviceExecs ==
    {e \in DeviceListExecs :
        e.rows \in {<<>>, <<"wlan0 station connected HomeNet", "eth0 wired off">>}}

StepNetworkExecs ==
    {e \in NetworkListExecs :
        /\ e.started
        /\ e.duration <= Timeout
        /\ e.rows \in {<<>>, <<"HomeNet PSK -67dBm", "> OfficeWiFi open -55dBm">>}}

StepConnectExecs == {Ok("", <<>>), Exec(TRUE, 0, 1, "Operation failed", <<>>)}

ParseDeviceListExecs ==
    {Ok(Render(DeviceHeader, rows), rows) : rows \in SeqsUpTo(ParseDeviceRows, MaxParseRows)}
    \cup Failures({"Operation failed"})

ParseNetworkListExecs ==
    {Ok(Render(NetworkHeader, rows), rows) : rows \in SeqsUpTo(ParseNetworkRows, MaxParseRows)}
    \cup Failures({"Operation failed"})

\* The scan-trigger command: it succeeds or it fails.
ScanExecs == {Ok("", <<>>), Exec(TRUE, 0, 1, "Operation failed", <<>>)}

\* Commands that print nothing the program reads.
PlainExecs == {Ok("", <<>>)} \cup Failures({"Operation failed"})

ConnectExecs ==
    {Ok("", <<>>)} \cup Failures({"Operation failed", "Connection verification failed"})

DeviceNames == {"wlan0", "wlan1"}

Ssids == {"HomeNet", "OfficeWiFi"}

Passwords == {<<>>, <<"secret">>}

(***************************************************************************)
(* run_command                                                             *)
(***************************************************************************)
\* repr() of a list of strings, as str(TimeoutExpired) prints the command
RECURSIVE PyListItems(_, _)
PyListItems(cmd, i) ==
    IF i > Len(cmd) THEN ""
    ELSE "'" \o cmd[i] \o "'" \o (IF i < Len(cmd) THEN ", " ELSE "") \o PyListItems(cmd, i + 1)

PyListRepr(cmd) == "[" \o PyListItems(cmd, 1) \o "]"

\* str(e) of the exception subprocess.run raises for this process
ExceptionText(cmd, exec) ==
    IF ~exec.started
    THEN "[Errno 2] No such file or directory: '" \o cmd[1] \o "'"
    ELSE "Command '" \o PyListRepr(cmd) \o "' timed out after "
         \o ToString(Timeout) \o " seconds"

\* subprocess.run raises: the binary cannot be started, or the time bound passes
Raises(exec) == ~exec.started \/ exec.duration > Timeout

\* run_command that reports success whatever the exit code.
run_command_any_exit(cmd, input_text, exec) ==
    IF Raises(exec)
    THEN <<FALSE, ExceptionText(cmd, exec)>>
    ELSE <<TRUE, exec.stdout>>

\* run_command(cmd, input_text) -> (success, output)
run_command(cmd, input_text, exec) ==
    IF Raises(exec)
    THEN <<FALSE, ExceptionText(cmd, exec)>>
    ELSE <<exec.code = 0, exec.stdout>>

\* The record of one run_command call in the trace of an operation.
RunEvent(cmd, input_text, exec) ==
    [kind |-> "run", argv |-> cmd, input |-> input_text, exec |-> exec,
     result |-> run_command(cmd, input_text, exec)]

\* The record of one time.sleep call in the trace of an operation.
SleepEvent(seconds) == [kind |-> "sleep", seconds |-> seconds]

\* input_text = None
NoInput == <<>>

(***************************************************************************)
(* get_devices                                                             *)
(***************************************************************************)
\* The row test with the token count off by one.
DeviceLineAcceptedTwoTokens(line) ==
    /\ StripNonEmpty(line)
    /\ ~StartsWith(line, "-")
    /\ Len(SplitWS(line)) >= MinDeviceTokens - 1

\* if line.strip() and not line.startswith('-'): ... if len(parts) >= 3
DeviceLineAccepted(line) ==
    /\ StripNonEmpty(line)
    /\ ~StartsWith(line, "-")
    /\ Len(SplitWS(line)) >= MinDeviceTokens

\* The device of a row that takes the fourth token as the network whether or
\* not the row is connected.
DeviceOfLineAnyFourth(line) ==
    LET parts == SplitWS(line)
    IN  NetworkDevice(parts[1], parts[2],
                      Contains(line, "on"),
                      Contains(line, "connected"),
                      IF Len(parts) > 3 THEN parts[4] ELSE "")

\* NetworkDevice(name=parts[0], type=parts[1], powered='on' in line, ...)
DeviceOfLine(line) ==
    LET parts == SplitWS(line)
    IN  NetworkDevice(parts[1], parts[2],
                      Contains(line, "on"),
                      Contains(line, "connected"),
                      IF Len(parts) > 3 /\ Contains(line, "connected")
                      THEN parts[4] ELSE "")

RECURSIVE DeviceLoop(_, _, _)
\* for line in ...: devices.append(...)
DeviceLoop(lines, i, acc) ==
    IF i > Len(lines) THEN acc
    ELSE DeviceLoop(lines, i + 1,
                    IF DeviceLineAccepted(lines[i])
                    THEN Append(acc, DeviceOfLine(lines[i])) ELSE acc)

\* The device list built from the output of "iwctl device list".
ParseDeviceText(output) ==
    DeviceLoop(Drop(Split(output, "\n"), DeviceHeaderLines), 1, <<>>)

\* ParseDeviceText of every listing in DeviceListExecs, evaluated once.
ParsedDeviceListings ==
    {<<e.stdout, ParseDeviceText(e.stdout)>> : e \in DeviceListExecs}

ParsedStationListings ==
    {<<e.stdout, ParseDeviceText(e.stdout)>> : e \in StationListExecs}

\* ParseDeviceText(output), looked up when output is one of those listings.
ParseDevices(output) ==
    IF \E p \in ParsedDeviceListings : p[1] = output
    THEN (CHOOSE p \in ParsedDeviceListings : p[1] = output)[2]
    ELSE IF \E p \in ParsedStationListings : p[1] = output
    THEN (CHOOSE p \in ParsedStationListings : p[1] = output)[2]
    ELSE ParseDeviceText(output)

DeviceListCmd == <<"iwctl", "device", "list">>

\* get_devices that appends to the stored list instead of replacing it.
get_devices_accumulate(devs, exec) ==
    LET ev == RunEvent(DeviceListCmd, NoInput, exec)
        parsed == IF ev.result[1] THEN ParseDevices(ev.result[2]) ELSE <<>>
    IN  [devices |-> devs \o parsed, ret |-> devs \o parsed, events |-> <<ev>>]

\* get_devices(): devs is self.devices before the call
get_devices(devs, exec) ==
    LET ev == RunEvent(DeviceListCmd, NoInput, exec)
        parsed == IF ev.result[1] THEN ParseDevices(ev.result[2]) ELSE <<>>
    IN  [devices |-> parsed, ret |-> parsed, events |-> <<ev>>]

(***************************************************************************)
(* scan_networks                                                           *)
(***************************************************************************)
\* if line.strip() and not line.startswith('-'): ... if parts:
NetworkLineAccepted(line) ==
    /\ StripNonEmpty(line)
    /\ ~StartsWith(line, "-")
    /\ Len(SplitWS(line)) > 0

RECURSIVE SignalLoopFirst(_, _, _)
\* The signal loop that stops at the first dBm token that parses.
SignalLoopFirst(parts, i, signal) ==
    IF i > Len(parts) THEN signal
    ELSE LET n == ParseInt(Strip(Replace(parts[i], "dBm", "")))
         IN  IF Contains(parts[i], "dBm") /\ n.ok THEN Abs(n.val)
             ELSE SignalLoopFirst(parts, i + 1, signal)

RECURSIVE SignalLoop(_, _, _)
\* for part in parts: if "dBm" in part: try: signal = abs(int(...)) except: pass
SignalLoop(parts, i, signal) ==
    IF i > Len(parts) THEN signal
    ELSE LET n == ParseInt(Strip(Replace(parts[i], "dBm", "")))
         IN  SignalLoop(parts, i + 1,
                        IF Contains(parts[i], "dBm") /\ n.ok THEN Abs(n.val) ELSE signal)

\* WirelessNetwork(ssid=parts[0], security=..., signal_strength=..., connected=...)
NetworkOfLine(line) ==
    LET parts == SplitWS(line)
    IN  WirelessNetwork(parts[1],
                        IF Contains(line, "PSK") \/ Contains(line, "802.1X")
                        THEN "secured" ELSE "open",
                        SignalLoop(parts, 1, DefaultSignal),
                        Contains(line, ">"))

RECURSIVE NetworkLoop(_, _, _)
\* for line in ...: networks.append(...)
NetworkLoop(lines, i, acc) ==
    IF i > Len(lines) THEN acc
    ELSE NetworkLoop(lines, i + 1,
                     IF NetworkLineAccepted(lines[i])
                     THEN Append(acc, NetworkOfLine(lines[i])) ELSE acc)

\* The network list built from the output of "iwctl station <dev> get-networks".
ParseNetworkText(output) ==
    NetworkLoop(Drop(Split(output, "\n"), NetworkHeaderLines), 1, <<>>)

\* ParseNetworkText of every listing in NetworkListExecs, evaluated once.
ParsedNetworkListings ==
    {<<e.stdout, ParseNetworkText(e.stdout)>> : e \in NetworkListExecs}

\* ParseNetworkText(output), looked up when output is one of those listings.
ParseNetworks(output) ==
    IF \E p \in ParsedNetworkListings : p[1] = output
    THEN (CHOOSE p \in ParsedNetworkListings : p[1] = output)[2]
    ELSE ParseNetworkText(output)

\* The device selection taking the last powered station instead of the first.
LastPoweredStation(devs, dflt) ==
    LET hits == {i \in 1..Len(devs) : devs[i].type = "station" /\ devs[i].powered}
    IN  IF hits = {} THEN dflt
        ELSE devs[CHOOSE i \in hits : \A j \in hits : i >= j].name

\* for dev in self.devices: if dev.type == "station" and dev.powered: ... break
\* The name of the first powered station, or dflt when there is none.
FirstPoweredStation(devs, dflt) ==
    LET hits == {i \in 1..Len(devs) : devs[i].type = "station" /\ devs[i].powered}
    IN  IF hits = {} THEN dflt
        ELSE devs[CHOOSE i \in hits : \A j \in hits : i <= j].name

\* scan_networks(device): device = "" stands for a falsy device (None or "");
\* devs, nets are self.devices, self.networks before the call
scan_networks(devs, nets, device, scanExec, listExec) ==
    LET target == IF device = "" /\ Len(devs) > 0
                  THEN FirstPoweredStation(devs, device) ELSE device
        ev1 == RunEvent(<<"iwctl", "station", target, "scan">>, NoInput, scanExec)
        ev2 == RunEvent(<<"iwctl", "station", target, "get-networks">>, NoInput, listExec)
        parsed == IF ev2.result[1] THEN ParseNetworks(ev2.result[2]) ELSE <<>>
    IN  IF target = ""
        THEN [networks |-> nets, ret |-> <<>>, events |-> <<>>]
        ELSE [networks |-> parsed, ret |-> parsed,
              events |-> <<ev1, SleepEvent(ScanDelay), ev2>>]

(***************************************************************************)
(* connect_to_network, disconnect_network, toggle_device_power             *)
(***************************************************************************)
\* cmd = ["iwctl", "station", device, "connect", ssid]
ConnectCmd(device, ssid) == <<"iwctl", "station", device, "connect", ssid>>

\* connect_to_network that trusts the exit status of the connect command.
connect_to_network_unverified(devs, device, ssid, password, connectExec, listExec) ==
    LET ev1 == RunEvent(ConnectCmd(device, ssid), password, connectExec)
        refreshed == get_devices(devs, listExec)
    IN  IF ev1.result[1]
        THEN [devices |-> refreshed.devices,
              ret |-> <<TRUE, "Connected to " \o ssid>>,
              events |-> <<ev1, SleepEvent(VerifyDelay)>> \o refreshed.events]
        ELSE [devices |-> devs,
              ret |-> <<FALSE, "Connection failed: " \o ev1.result[2]>>,
              events |-> <<ev1>>]

\* connect_to_network that returns the utility's text alone on failure.
connect_to_network_raw_message(devs, device, ssid, password, connectExec, listExec) ==
    LET ev1 == RunEvent(ConnectCmd(device, ssid), password, connectExec)
        refreshed == get_devices(devs, listExec)
        found == \E i \in 1..Len(refreshed.devices) :
                    /\ refreshed.devices[i].connected
                    /\ refreshed.devices[i].network = ssid
    IN  IF ev1.result[1]
        THEN [devices |-> refreshed.devices,
              ret |-> IF found THEN <<TRUE, "Connected to " \o ssid>>
                      ELSE <<FALSE, "Connection verification failed">>,
              events |-> <<ev1, SleepEvent(VerifyDelay)>> \o refreshed.events]
        ELSE [devices |-> devs,
              ret |-> <<FALSE, ev1.result[2]>>,
              events |-> <<ev1>>]

\* connect_to_network that refreshes the devices whatever the connect
\* command did.
connect_to_network_always_refresh(devs, device, ssid, password, connectExec, listExec) ==
    LET ev1 == RunEvent(ConnectCmd(device, ssid), password, connectExec)
        refreshed == get_devices(devs, listExec)
        found == \E i \in 1..Len(refreshed.devices) :
                    /\ refreshed.devices[i].connected
                    /\ refreshed.devices[i].network = ssid
    IN  [devices |-> refreshed.devices,
         ret |-> IF ~ev1.result[1]
                 THEN <<FALSE, "Connection failed: " \o ev1.result[2]>>
                 ELSE IF found THEN <<TRUE, "Connected to " \o ssid>>
                 ELSE <<FALSE, "Connection verification failed">>,
         events |-> <<ev1, SleepEvent(VerifyDelay)>> \o refreshed.events]

\* connect_to_network that puts the password on the command line.
connect_to_network_password_argv(devs, device, ssid, password, connectExec, listExec) ==
    LET ev1 == RunEvent(ConnectCmd(device, ssid) \o password, NoInput, connectExec)
        refreshed == get_devices(devs, listExec)
        found == \E i \in 1..Len(refreshed.devices) :
                    /\ refreshed.devices[i].connected
                    /\ refreshed.devices[i].network = ssid
    IN  IF ev1.result[1]
        THEN [devices |-> refreshed.devices,
              ret |-> IF found THEN <<TRUE, "Connected to " \o ssid>>
                      ELSE <<FALSE, "Connection verification failed">>,
              events |-> <<ev1, SleepEvent(VerifyDelay)>> \o refreshed.events]
        ELSE [devices |-> devs,
              ret |-> <<FALSE, "Connection failed: " \o ev1.result[2]>>,
              events |-> <<ev1>>]

\* connect_to_network(device, ssid, password): password is <<>> for None
connect_to_network(devs, device, ssid, password, connectExec, listExec) ==
    LET ev1 == RunEvent(ConnectCmd(device, ssid), password, connectExec)
        refreshed == get_devices(devs, listExec)
        found == \E i \in 1..Len(refreshed.devices) :
                    /\ refreshed.devices[i].connected
                    /\ refreshed.devices[i].network = ssid
    IN  IF ev1.result[1]
        THEN [devices |-> refreshed.devices,
              ret |-> IF found THEN <<TRUE, "Connected to " \o ssid>>
                      ELSE <<FALSE, "Connection verification failed">>,
              events |-> <<ev1, SleepEvent(VerifyDelay)>> \o refreshed.events]
        ELSE [devices |-> devs,
              ret |-> <<FALSE, "Connection failed: " \o ev1.result[2]>>,
              events |-> <<ev1>>]

\* disconnect_network(device)
disconnect_network(device, exec) ==
    LET ev == RunEvent(<<"iwctl", "station", device, "disconnect">>, NoInput, exec)
    IN  [ret |-> <<ev.result[1],
                   IF ev.result[1] THEN "Disconnected"
                   ELSE "Disconnect failed: " \o ev.result[2]>>,
         events |-> <<ev>>]

\* toggle_device_power that issues the command without looking the device up.
toggle_device_power_unchecked(devs, device, exec) ==
    LET hits == {i \in 1..Len(devs) : devs[i].name = device}
        powered == \E i \in hits : devs[i].powered
        new_state == IF powered THEN "off" ELSE "on"
        ev == RunEvent(<<"iwctl", "device", device, "set-property", "Powered", new_state>>,
                       NoInput, exec)
    IN  [ret |-> ev.result[1], events |-> <<ev>>]

\* toggle_device_power(device)
toggle_device_power(devs, device, exec) ==
    LET hits == {i \in 1..Len(devs) : devs[i].name = device}
        dev == devs[CHOOSE i \in hits : \A j \in hits : i <= j]
        new_state == IF dev.powered THEN "off" ELSE "on"
        ev == RunEvent(<<"iwctl", "device", device, "set-property", "Powered", new_state>>,
                       NoInput, exec)
    IN  IF hits = {} THEN [ret |-> FALSE, events |-> <<>>]
        ELSE [ret |-> ev.result[1], events |-> <<ev>>]

(***************************************************************************)
(* IwdTUI.update_status                                                    *)
(***************************************************************************)
\* update_status that lets a later connected device override an earlier one.
update_status_last(devs) ==
    LET hits == {i \in 1..Len(devs) : devs[i].connected}
        device == devs[CHOOSE i \in hits : \A j \in hits : i >= j]
        connection_info == device.network \o " on " \o device.name
    IN  IF hits = {}
        THEN [connection_status |-> "disconnected", active_connection |-> ""]
        ELSE [connection_status |-> "connected to " \o connection_info,
              active_connection |-> connection_info]

\* update_status(): devs is self.network_mgr.devices; the loop breaks at the
\* first device with connected set
update_status(devs) ==
    LET hits == {i \in 1..Len(devs) : devs[i].connected}
        device == devs[CHOOSE i \in hits : \A j \in hits : i <= j]
        connection_info == device.network \o " on " \o device.name
    IN  IF hits = {}
        THEN [connection_status |-> "disconnected", active_connection |-> ""]
        ELSE [connection_status |-> "connected to " \o connection_info,
              active_connection |-> connection_info]

(***************************************************************************)
(* The screens of IwdTUI: what is drawn and what a key does.  The selected *)
(* index counts from 0, as in the code.                                    *)
(***************************************************************************)
\* menu_count = 6
MenuCount == 6

Max(a, b) == IF a >= b THEN a ELSE b

Min(a, b) == IF a <= b THEN a ELSE b

\* menu_items of draw_main_screen
MainItems ==
    <<"Scan and Connect to Networks", "Network Devices", "Saved Networks",
      "Radio Power Management", "Connection Information", "Quit">>

\* display_items of draw_network_list_screen: one item per network, by ssid
NetworkItems(nets) ==
    (IF Len(nets) = 0
     THEN <<"No networks found", "Press R to rescan">>
     ELSE [k \in 1..Len(nets) |-> nets[k].ssid])
    \o <<"", "Rescan Networks", "Back to Main Menu">>

\* display_items of draw_device_list_screen: one item per device, by name
DeviceItems(devs) ==
    (IF Len(devs) = 0
     THEN <<"No devices found">>
     ELSE [k \in 1..Len(devs) |-> devs[k].name])
    \o <<"", "Back to Main Menu">>

\* The item ListView.draw highlights: the one at selected_index, if any.
ItemAt(items, index) ==
    IF index >= 0 /\ index < Len(items) THEN items[index + 1] ELSE ""

\* What the screen shows at the selected index.
Displayed(screen, devs, nets, index) ==
    ItemAt(CASE screen = "networks" -> NetworkItems(nets)
             [] screen = "devices" -> DeviceItems(devs)
             [] OTHER -> MainItems,
           index)

\* The test before a list is indexed, letting the index one past the end through.
IsListItemInclusive(index, count) == index <= count

\* if self.selected_index < network_count: / < device_count:
IsListItem(index, count) == index < count

\* list[index]: Python counts a negative index from the end and raises
\* IndexError outside -len..len-1
Raises_IndexError(seq, index) == index >= Len(seq) \/ index < 0 - Len(seq)

PyItem(seq, index) ==
    IF index >= 0 THEN seq[index + 1] ELSE seq[Len(seq) + index + 1]

\* The record of one list[index] in a handler.
Access(list, seq, index) == [list |-> list, index |-> index, len |-> Len(seq)]

\* What a handler leaves behind when it changes nothing.
Handled(sel, screen, devs, nets) ==
    [selected_index |-> sel, current_screen |-> screen, running |-> TRUE,
     devices |-> devs, networks |-> nets,
     action |-> "none", accesses |-> <<>>, raised |-> FALSE]

\* The processes and the dialog input a handler may consume.
Env(password, connectExec, listExec, netExec, toggleExec) ==
    [password |-> password, connectExec |-> connectExec, listExec |-> listExec,
     netExec |-> netExec, toggleExec |-> toggleExec]

\* handle_main_screen_input(stdscr, key)
handle_main_screen_input(sel, devs, nets, key, e) ==
    LET same == Handled(sel, "main", devs, nets)
    IN  CASE key = "UP" ->
               [same EXCEPT !.selected_index = (sel - 1) % MenuCount, !.action = "move"]
          [] key = "DOWN" ->
               [same EXCEPT !.selected_index = (sel + 1) % MenuCount, !.action = "move"]
          [] key = "ENTER" /\ sel = 0 ->
               [same EXCEPT !.current_screen = "networks", !.selected_index = 0,
                            !.action = "networks"]
          [] key = "ENTER" /\ sel = 1 ->
               [same EXCEPT !.current_screen = "devices", !.selected_index = 0,
                            !.devices = get_devices(devs, e.listExec).devices,
                            !.action = "devices"]
          [] key = "ENTER" /\ sel = 5 ->
               [same EXCEPT !.running = FALSE, !.action = "quit"]
          [] key = "q" ->
               [same EXCEPT !.running = FALSE, !.action = "quit"]
          [] OTHER -> same

\* handle_network_list_input(stdscr, key)
handle_network_list_input(sel, devs, nets, key, e) ==
    LET same == Handled(sel, "networks", devs, nets)
        network_count == Len(nets)
        total_items == network_count + 3
        rescan == [same EXCEPT
                     !.networks = scan_networks(devs, nets, "", Ok("", <<>>), e.netExec).networks,
                     !.action = "rescan"]
        back == [same EXCEPT !.current_screen = "main", !.selected_index = 0,
                             !.action = "back"]
        read == [same EXCEPT !.accesses = <<Access("networks", nets, sel)>>]
        network == PyItem(nets, sel)
        device == FirstPoweredStation(devs, "")
        password == IF network.security = "secured" THEN e.password ELSE NoInput
        connect == connect_to_network(devs, device, network.ssid, password,
                                      e.connectExec, e.listExec)
    IN  CASE key = "UP" ->
               [same EXCEPT !.selected_index = Max(0, sel - 1), !.action = "move"]
          [] key = "DOWN" ->
               [same EXCEPT !.selected_index = Min(total_items - 1, sel + 1),
                            !.action = "move"]
          [] key = "ENTER" /\ IsListItem(sel, network_count) ->
               IF Raises_IndexError(nets, sel)
               THEN [read EXCEPT !.raised = TRUE, !.action = "error"]
               ELSE IF (network.security = "secured" /\ e.password = NoInput)
                       \/ device = ""
               THEN [read EXCEPT !.action = "select"]
               ELSE [read EXCEPT !.devices = connect.devices, !.action = "connect"]
          [] \/ key = "ENTER" /\ ~IsListItem(sel, network_count)
                   /\ sel = network_count + 1
             \/ key = "r" -> rescan
          [] \/ key = "ENTER" /\ ~IsListItem(sel, network_count)
                   /\ sel = network_count + 2
             \/ key = "b" -> back
          [] OTHER -> same

\* handle_device_list_input(stdscr, key)
handle_device_list_input(sel, devs, nets, key, e) ==
    LET same == Handled(sel, "devices", devs, nets)
        device_count == Len(devs)
        total_items == device_count + 2
        back == [same EXCEPT !.current_screen = "main", !.selected_index = 0,
                             !.action = "back"]
        read == [same EXCEPT !.accesses = <<Access("devices", devs, sel)>>]
        device == PyItem(devs, sel)
        toggled == toggle_device_power(devs, device.name, e.toggleExec).ret
    IN  CASE key = "UP" ->
               [same EXCEPT !.selected_index = Max(0, sel - 1), !.action = "move"]
          [] key = "DOWN" ->
               [same EXCEPT !.selected_index = Min(total_items - 1, sel + 1),
                            !.action = "move"]
          [] key = "ENTER" /\ IsListItem(sel, device_count) ->
               IF Raises_IndexError(devs, sel)
               THEN [read EXCEPT !.raised = TRUE, !.action = "error"]
               ELSE [read EXCEPT
                       !.devices = IF toggled THEN get_devices(devs, e.listExec).devices
                                   ELSE devs,
                       !.action = "toggle"]
          [] \/ key = "ENTER" /\ ~IsListItem(sel, device_count)
                   /\ sel = device_count + 1
             \/ key = "b" -> back
          [] OTHER -> same

(***************************************************************************)
(* The operations of NetworkManager.                                       *)
(***************************************************************************)
\* No key has been handled yet.
NoKey ==
    [screen |-> "main", key |-> "none", index |-> 0, item |-> "",
     action |-> "none", accesses |-> <<>>]

\* NetworkManager.__init__ and IwdTUI.__init__
InitFields ==
    /\ devices = <<>>
    /\ networks = <<>>
    /\ connection_status = "disconnected"
    /\ active_connection = ""
    /\ frame = Idle
    /\ current_screen = "main"
    /\ selected_index = 0
    /\ running = TRUE
    /\ handled = NoKey

Init ==
    /\ InitFields
    /\ call = [op |-> "init", args |-> <<>>, events |-> <<>>, ret |-> <<>>]

GetDevicesFrom(execs) ==
    \E exec \in execs :
        LET r == get_devices(devices, exec)
        IN  /\ devices' = r.devices
            /\ call' = [op |-> "get_devices", args |-> <<>>,
                        events |-> r.events, ret |-> r.ret]
            /\ UNCHANGED <<networks, status, frame, tui>>

ScanNetworksFrom(names, scanExecs, listExecs) ==
    \E device \in names, scanExec \in scanExecs, listExec \in listExecs :
        LET r == scan_networks(devices, networks, device, scanExec, listExec)
        IN  /\ networks' = r.networks
            /\ call' = [op |-> "scan_networks", args |-> <<device>>,
                        events |-> r.events, ret |-> r.ret]
            /\ UNCHANGED <<devices, status, frame, tui>>

CallGetDevices == GetDevicesFrom(DeviceListExecs)

CallScanNetworks == ScanNetworksFrom({"", "wlan0"}, ScanExecs, NetworkListExecs)

CallConnectToNetwork ==
    \E device \in DeviceNames, ssid \in Ssids, password \in Passwords,
       connectExec \in ConnectExecs :
        \E listExec \in IF run_command(ConnectCmd(device, ssid), password, connectExec)[1]
                        THEN DeviceListExecs ELSE {NotRun} :
            LET r == connect_to_network(devices, device, ssid, password,
                                        connectExec, listExec)
            IN  /\ devices' = r.devices
                /\ call' = [op |-> "connect_to_network",
                            args |-> <<device, ssid, password>>,
                            events |-> r.events, ret |-> r.ret]
                /\ UNCHANGED <<networks, status, frame, tui>>

CallDisconnectNetwork ==
    \E device \in DeviceNames, exec \in PlainExecs :
        LET r == disconnect_network(device, exec)
        IN  /\ call' = [op |-> "disconnect_network", args |-> <<device>>,
                        events |-> r.events, ret |-> r.ret]
            /\ UNCHANGED <<devices, networks, status, frame, tui>>

ToggleDevicePowerOf(names) ==
    \E device \in names, exec \in PlainExecs :
        LET r == toggle_device_power(devices, device, exec)
        IN  /\ call' = [op |-> "toggle_device_power", args |-> <<device>>,
                        events |-> r.events, ret |-> r.ret]
            /\ UNCHANGED <<devices, networks, status, frame, tui>>

CallToggleDevicePower == ToggleDevicePowerOf(DeviceNames)

Next ==
    \/ CallGetDevices
    \/ CallScanNetworks
    \/ CallConnectToNetwork
    \/ CallDisconnectNetwork
    \/ CallToggleDevicePower

Spec == Init /\ [][Next]_vars

(***************************************************************************)
(* The parsers alone: the utility holds one listing of the parser row sets *)
(* (or fails), and get_devices, resp. scan_networks, reads it.             *)
(***************************************************************************)
\* The listing the utility is about to print.
Pending(exec) == [op |-> "pending", args |-> <<exec>>, events |-> <<>>, ret |-> <<>>]

InitDevices ==
    /\ InitFields
    /\ \E exec \in ParseDeviceListExecs : call = Pending(exec)

ParseGetDevices ==
    /\ call.op = "pending"
    /\ GetDevicesFrom({call.args[1]})

SpecDevices == InitDevices /\ [][ParseGetDevices]_vars

InitNetworks ==
    /\ InitFields
    /\ \E exec \in ParseNetworkListExecs : call = Pending(exec)

ParseScanNetworks ==
    /\ call.op = "pending"
    /\ ScanNetworksFrom({"wlan0"}, {Ok("", <<>>)}, {call.args[1]})

SpecNetworks == InitNetworks /\ [][ParseScanNetworks]_vars

(***************************************************************************)
(* The status line: the main loop of IwdTUI.run refreshes the devices,     *)
(* scans without naming a device and calls update_status, on a machine     *)
(* with two wireless adapters.                                             *)
(***************************************************************************)
RefreshDevices == GetDevicesFrom(StationListExecs)

AutoScan == ScanNetworksFrom({""}, ScanExecs, ShortNetworkListExecs)

UpdateStatus ==
    LET r == update_status(devices)
    IN  /\ connection_status' = r.connection_status
        /\ active_connection' = r.active_connection
        /\ call' = [op |-> "update_status", args |-> <<>>, events |-> <<>>, ret |-> <<>>]
        /\ UNCHANGED <<devices, networks, frame, tui>>

NextStatus ==
    \/ RefreshDevices
    \/ AutoScan
    \/ UpdateStatus

SpecStatus == Init /\ [][NextStatus]_vars

(***************************************************************************)
(* The radio power screen: the devices are refreshed from listings that    *)
(* report each station's power, and the power of a device is toggled.      *)
(***************************************************************************)
RefreshPower == GetDevicesFrom(PowerListExecs)

TogglePower == ToggleDevicePowerOf({"wlan0", "wlan1", "eth0"})

NextPower ==
    \/ RefreshPower
    \/ TogglePower

SpecPower == Init /\ [][NextPower]_vars

(***************************************************************************)
(* The main loop of IwdTUI.run: the initial load, then one key at a time.  *)
(* A key is handled by the handler of the current screen, after which the  *)
(* loop refreshes the devices and the status; drawing the network screen   *)
(* may rescan.  The lists grow and shrink with what the utility prints.    *)
(***************************************************************************)
StatusCall == [op |-> "update_status", args |-> <<>>, events |-> <<>>, ret |-> <<>>]

\* The processes and input the handler of this screen can use for this key.
Envs(screen, key) ==
    LET enter == key = "ENTER"
        connects == screen = "networks" /\ enter
        scans == screen = "networks" /\ key \in {"ENTER", "r"}
        lists == enter
        toggles == screen = "devices" /\ enter
    IN  {Env(p, c, l, n, t) :
            p \in IF connects THEN Passwords ELSE {NoInput},
            c \in IF connects THEN StepConnectExecs ELSE {NotRun},
            l \in IF lists THEN UiDeviceExecs ELSE {NotRun},
            n \in IF scans THEN UiNetworkExecs ELSE {NotRun},
            t \in IF toggles THEN StepConnectExecs ELSE {NotRun}}

\* Lines 624-626: get_devices(), scan_networks(), update_status()
InitialLoad ==
    /\ call.op = "init"
    /\ \E listExec \in UiDeviceExecs, netExec \in UiNetworkExecs :
           LET devs == get_devices(devices, listExec).devices
               nets == scan_networks(devs, networks, "", Ok("", <<>>), netExec).networks
               st == update_status(devs)
           IN  /\ devices' = devs
               /\ networks' = nets
               /\ connection_status' = st.connection_status
               /\ active_connection' = st.active_connection
               /\ call' = StatusCall
    /\ UNCHANGED <<frame, tui>>

\* draw_network_list_screen when 10 seconds have passed since the last scan
DrawNetworkListScan ==
    /\ call.op # "init"
    /\ running
    /\ current_screen = "networks"
    /\ \E netExec \in UiNetworkExecs :
           networks' = scan_networks(devices, networks, "", Ok("", <<>>), netExec).networks
    /\ UNCHANGED <<devices, call, status, frame, tui>>

\* Lines 646-662: getch, the handler of the screen, get_devices, update_status
KeyPress ==
    /\ call.op # "init"
    /\ running
    /\ \E key \in Keys :
         \E e \in Envs(current_screen, key), refreshExec \in UiDeviceExecs :
          \E h \in {CASE current_screen = "networks" ->
                         handle_network_list_input(selected_index, devices, networks, key, e)
                    [] current_screen = "devices" ->
                         handle_device_list_input(selected_index, devices, networks, key, e)
                    [] OTHER ->
                         handle_main_screen_input(selected_index, devices, networks, key, e)} :
           \E devs \in {IF h.raised THEN h.devices
                         ELSE get_devices(h.devices, refreshExec).devices} :
            \E st \in {update_status(devs)} :
               /\ devices' = devs
               /\ networks' = h.networks
               /\ current_screen' = h.current_screen
               /\ selected_index' = h.selected_index
               /\ running' = h.running
               /\ connection_status' = st.connection_status
               /\ active_connection' = st.active_connection
               /\ handled' = [screen |-> current_screen, key |-> key,
                              index |-> selected_index,
                              item |-> Displayed(current_screen, devices, networks,
                                                 selected_index),
                              action |-> h.action, accesses |-> h.accesses]
               /\ call' = StatusCall
    /\ UNCHANGED frame

NextUI ==
    \/ InitialLoad
    \/ DrawNetworkListScan
    \/ KeyPress

SpecUI == Init /\ [][NextUI]_vars

(***************************************************************************)
(* The calls of NetworkManager statement by statement.  frame is the call  *)
(* in flight: pc names the statement it executes next, events is its trace *)
(* so far, lines, i and acc are the lines of the output being read, the    *)
(* position of the loop in them and the local list built so far.  The      *)
(* refresh inside connect_to_network runs in the frame of the connect.     *)
(***************************************************************************)
Frame(op, pc, args) ==
    [op |-> op, pc |-> pc, args |-> args, target |-> "", events |-> <<>>,
     lines |-> <<>>, i |-> 1, acc |-> <<>>]

Returned(frm, ret) ==
    [op |-> frm.op, args |-> frm.args, events |-> frm.events, ret |-> ret]

\* success, output = self.run_command(["iwctl", "device", "list"]); devices = []
get_devices_run(frm, exec) ==
    LET ev == RunEvent(DeviceListCmd, NoInput, exec)
    IN  [frm EXCEPT !.pc = "gd_loop",
                    !.events = Append(@, ev),
                    !.lines = IF ev.result[1]
                              THEN Drop(Split(ev.result[2], "\n"), DeviceHeaderLines)
                              ELSE <<>>,
                    !.i = 1,
                    !.acc = <<>>]

\* One iteration of the loop of get_devices that appends to self.devices.
get_devices_line_in_place(frm, devs) ==
    LET line == frm.lines[frm.i]
        acc == IF DeviceLineAccepted(line)
               THEN Append(frm.acc, DeviceOfLine(line)) ELSE frm.acc
    IN  [frame |-> [frm EXCEPT !.i = @ + 1, !.acc = acc], devices |-> acc]

\* One iteration of the loop of get_devices: devs is self.devices
get_devices_line(frm, devs) ==
    LET line == frm.lines[frm.i]
        acc == IF DeviceLineAccepted(line)
               THEN Append(frm.acc, DeviceOfLine(line)) ELSE frm.acc
    IN  [frame |-> [frm EXCEPT !.i = @ + 1, !.acc = acc], devices |-> devs]

\* The scan command that gives up when the command fails.
scan_trigger_checked(frm, exec) ==
    LET ev == RunEvent(<<"iwctl", "station", frm.target, "scan">>, NoInput, exec)
    IN  IF ev.result[1]
        THEN [frm EXCEPT !.pc = "sn_sleep", !.events = Append(@, ev)]
        ELSE [frm EXCEPT !.pc = "sn_loop", !.events = Append(@, ev)]

\* self.run_command(["iwctl", "station", device, "scan"])
scan_trigger(frm, exec) ==
    LET ev == RunEvent(<<"iwctl", "station", frm.target, "scan">>, NoInput, exec)
    IN  [frm EXCEPT !.pc = "sn_sleep", !.events = Append(@, ev)]

\* success, output = self.run_command([... "get-networks"]); networks = []
scan_list(frm, exec) ==
    LET ev == RunEvent(<<"iwctl", "station", frm.target, "get-networks">>, NoInput, exec)
    IN  [frm EXCEPT !.pc = "sn_loop",
                    !.events = Append(@, ev),
                    !.lines = IF ev.result[1]
                              THEN Drop(Split(ev.result[2], "\n"), NetworkHeaderLines)
                              ELSE <<>>,
                    !.i = 1,
                    !.acc = <<>>]

\* One iteration of the loop of scan_networks.
scan_line(frm) ==
    LET line == frm.lines[frm.i]
    IN  [frm EXCEPT !.i = @ + 1,
                    !.acc = IF NetworkLineAccepted(line)
                            THEN Append(@, NetworkOfLine(line)) ELSE @]

InGetDevices ==
    /\ frame.op \in {"get_devices", "connect_to_network"}
    /\ frame.pc \in {"gd_run", "gd_loop"}

\* get_devices is called: line 82-83.
GetDevicesRun ==
    /\ frame = Idle
    /\ \E exec \in StepDeviceExecs :
           frame' = get_devices_run(Frame("get_devices", "gd_run", <<>>), exec)
    /\ UNCHANGED <<devices, networks, call, status, tui>>

\* The get_devices() of connect_to_network: line 156, then 82-83.
ConnectRefresh ==
    /\ frame.op = "connect_to_network"
    /\ frame.pc = "gd_run"
    /\ \E exec \in StepDeviceExecs : frame' = get_devices_run(frame, exec)
    /\ UNCHANGED <<devices, networks, call, status, tui>>

\* Lines 86-96, once.
GetDevicesLine ==
    /\ InGetDevices
    /\ frame.pc = "gd_loop"
    /\ frame.i <= Len(frame.lines)
    /\ LET r == get_devices_line(frame, devices)
       IN  /\ frame' = r.frame
           /\ devices' = r.devices
    /\ UNCHANGED <<networks, call, status, tui>>

\* self.devices = devices; return devices
GetDevicesAssign ==
    /\ InGetDevices
    /\ frame.pc = "gd_loop"
    /\ frame.i > Len(frame.lines)
    /\ devices' = frame.acc
    /\ IF frame.op = "get_devices"
       THEN /\ frame' = Idle
            /\ call' = Returned(frame, frame.acc)
       ELSE /\ frame' = [frame EXCEPT !.pc = "cn_verify"]
            /\ UNCHANGED call
    /\ UNCHANGED <<networks, status, tui>>

\* scan_networks is called: lines 103-110.
ScanSelect ==
    /\ frame = Idle
    /\ \E device \in {"", "wlan0"} :
           LET target == IF device = "" /\ Len(devices) > 0
                         THEN FirstPoweredStation(devices, device) ELSE device
               frm == Frame("scan_networks", "sn_trigger", <<device>>)
           IN  IF target = ""
               THEN /\ call' = Returned(frm, <<>>)
                    /\ UNCHANGED frame
               ELSE /\ frame' = [frm EXCEPT !.target = target]
                    /\ UNCHANGED call
    /\ UNCHANGED <<devices, networks, status, tui>>

\* Line 113.
ScanTrigger ==
    /\ frame.op = "scan_networks"
    /\ frame.pc = "sn_trigger"
    /\ \E exec \in ScanExecs : frame' = scan_trigger(frame, exec)
    /\ UNCHANGED <<devices, networks, call, status, tui>>

\* time.sleep(2)
ScanSleep ==
    /\ frame.op = "scan_networks"
    /\ frame.pc = "sn_sleep"
    /\ frame' = [frame EXCEPT !.pc = "sn_list",
                              !.events = Append(@, SleepEvent(ScanDelay))]
    /\ UNCHANGED <<devices, networks, call, status, tui>>

\* Lines 117-118.
ScanList ==
    /\ frame.op = "scan_networks"
    /\ frame.pc = "sn_list"
    /\ \E exec \in StepNetworkExecs : frame' = scan_list(frame, exec)
    /\ UNCHANGED <<devices, networks, call, status, tui>>

\* Lines 121-143, once.
ScanLine ==
    /\ frame.op = "scan_networks"
    /\ frame.pc = "sn_loop"
    /\ frame.i <= Len(frame.lines)
    /\ frame' = scan_line(frame)
    /\ UNCHANGED <<devices, networks, call, status, tui>>

\* self.networks = networks; return networks
ScanAssign ==
    /\ frame.op = "scan_networks"
    /\ frame.pc = "sn_loop"
    /\ frame.i > Len(frame.lines)
    /\ networks' = frame.acc
    /\ frame' = Idle
    /\ call' = Returned(frame, frame.acc)
    /\ UNCHANGED <<devices, status, tui>>

\* connect_to_network is called: line 150.
ConnectCall ==
    /\ frame = Idle
    /\ \E ssid \in Ssids :
           frame' = Frame("connect_to_network", "cn_run", <<"wlan0", ssid, <<"secret">>>>)
    /\ UNCHANGED <<devices, networks, call, status, tui>>

\* Lines 151-153, 161-162.
ConnectRun ==
    /\ frame.op = "connect_to_network"
    /\ frame.pc = "cn_run"
    /\ \E exec \in StepConnectExecs :
           LET ev == RunEvent(ConnectCmd(frame.args[1], frame.args[2]), frame.args[3], exec)
               frm == [frame EXCEPT !.events = Append(@, ev)]
           IN  IF ev.result[1]
               THEN /\ frame' = [frm EXCEPT !.pc = "cn_sleep"]
                    /\ UNCHANGED call
               ELSE /\ frame' = Idle
                    /\ call' = Returned(frm, <<FALSE, "Connection failed: " \o ev.result[2]>>)
    /\ UNCHANGED <<devices, networks, status, tui>>

\* time.sleep(2)
ConnectSleep ==
    /\ frame.op = "connect_to_network"
    /\ frame.pc = "cn_sleep"
    /\ frame' = [frame EXCEPT !.pc = "gd_run",
                              !.events = Append(@, SleepEvent(VerifyDelay))]
    /\ UNCHANGED <<devices, networks, call, status, tui>>

\* Lines 157-160.
ConnectVerify ==
    /\ frame.op = "connect_to_network"
    /\ frame.pc = "cn_verify"
    /\ LET ssid == frame.args[2]
           found == \E i \in 1..Len(devices) :
                       devices[i].connected /\ devices[i].network = ssid
       IN  call' = Returned(frame, IF found THEN <<TRUE, "Connected to " \o ssid>>
                                   ELSE <<FALSE, "Connection verification failed">>)
    /\ frame' = Idle
    /\ UNCHANGED <<devices, networks, status, tui>>

\* update_status() in the main loop, between the calls.
IdleUpdateStatus ==
    /\ frame = Idle
    /\ UpdateStatus

NextSteps ==
    \/ GetDevicesRun
    \/ ConnectRefresh
    \/ GetDevicesLine
    \/ GetDevicesAssign
    \/ ScanSelect
    \/ ScanTrigger
    \/ ScanSleep
    \/ ScanList
    \/ ScanLine
    \/ ScanAssign
    \/ ConnectCall
    \/ ConnectRun
    \/ ConnectSleep
    \/ ConnectVerify
    \/ IdleUpdateStatus

SpecSteps == Init /\ [][NextSteps]_vars

(***************************************************************************)
(* Vocabulary of the properties.                                           *)
(***************************************************************************)
\* The process ran to completion within the time bound and exited with 0.
ExitedZero(exec) == exec.started /\ exec.duration <= Timeout /\ exec.code = 0

Range(seq) == {seq[i] : i \in 1..Len(seq)}

\* return False, "Connection verification failed"
VerificationMessage == "Connection verification failed"

\* Some stored device is connected to ssid.
ConnectedTo(devs, ssid) ==
    \E i \in 1..Len(devs) : devs[i].connected /\ devs[i].network = ssid

\* The last call was get_devices / scan_networks / connect_to_network.
IsRefresh(c) == c.op = "get_devices"

IsScan(c) == c.op = "scan_networks"

IsConnect(c) == c.op = "connect_to_network"

\* The process of the device-list command of a refresh.
RefreshExec(c) == c.events[1].exec

\* A scan that had a target device: scan command, delay, network-list command.
ScanRan(c) == IsScan(c) /\ Len(c.events) = 3

\* The process of the network-list command of a scan that had a target.
ScanListExec(c) == c.events[3].exec

\* The process of the connect command of a connect call.
ConnectExec(c) == c.events[1].exec

HasThreeTokens(row) == Len(SplitWS(row)) >= 3

HasThreeTokensNoDash(row) == Len(SplitWS(row)) >= 3 /\ ~StartsWith(row, "-")

(***************************************************************************)
(* C1: a device refresh whose device-list command fails leaves the         *)
(* Store's device list exactly as it was.  (The code replaces it by the    *)
(* empty list: TLC finds this violated.)                                   *)
(***************************************************************************)
C1_FailedRefreshKeepsDevices ==
    [][(IsRefresh(call') /\ ~ExitedZero(RefreshExec(call'))) => devices' = devices]_vars

(***************************************************************************)
(* C2: connect returns success if and only if the connect command exited 0 *)
(* and the device list produced by the refresh that follows holds a Device *)
(* with connected = true and network = ssid; on success the Store holds    *)
(* such a Device at return.                                                *)
(***************************************************************************)
C2_ConnectSuccessIffVerified ==
    IsConnect(call) =>
        LET ok == ExitedZero(ConnectExec(call))
            ssid == call.args[2]
        IN  /\ call.ret[1] <=> (ok /\ ConnectedTo(devices, ssid))
            /\ ok => /\ Len(call.events) = 3
                     /\ call.events[3].kind = "run"
                     /\ call.events[3].argv = DeviceListCmd
                     /\ devices = (IF ExitedZero(call.events[3].exec)
                                   THEN ParseDevices(call.events[3].exec.stdout)
                                   ELSE <<>>)
            /\ call.ret[1] => ConnectedTo(devices, ssid)

\* A connect call that returned success.
C2_Witness == IsConnect(call) /\ call.ret[1] /\ ConnectedTo(devices, call.args[2])

(***************************************************************************)
(* C3: when the connect command exits 0 but the refresh yields no Device   *)
(* with network = ssid (also when the refresh command itself fails),       *)
(* connect returns failure with the verification message; and whenever the *)
(* connect command itself fails the message differs from the verification  *)
(* message, whatever the command printed.                                  *)
(***************************************************************************)
C3_VerificationMessageDistinct ==
    IsConnect(call) =>
        LET ok == ExitedZero(ConnectExec(call))
            ssid == call.args[2]
        IN  /\ (ok /\ ~\E i \in 1..Len(devices) : devices[i].network = ssid)
                => call.ret = <<FALSE, VerificationMessage>>
            /\ ~ok => (~call.ret[1] /\ call.ret[2] # VerificationMessage)

\* The connect command succeeded, the refresh command failed, and connect
\* reported the verification failure.
C3_Witness ==
    /\ IsConnect(call)
    /\ ExitedZero(ConnectExec(call))
    /\ ~ExitedZero(call.events[3].exec)
    /\ call.ret = <<FALSE, VerificationMessage>>

(***************************************************************************)
(* C4: when the connect command itself fails, connect returns failure at   *)
(* once: the connect command is the only thing the call did (no delay, no  *)
(* device-list command), and the Store's device and network lists are as   *)
(* before the call.                                                        *)
(***************************************************************************)
C4_FailedConnectTouchesNothing ==
    [][(IsConnect(call') /\ ~ExitedZero(ConnectExec(call')))
        => /\ Len(call'.events) = 1
           /\ ~call'.ret[1]
           /\ devices' = devices
           /\ networks' = networks]_vars

\* A failed connect command, issued while the Store held devices and networks.
C4_Witness ==
    /\ IsConnect(call)
    /\ ~ExitedZero(ConnectExec(call))
    /\ Len(devices) > 0
    /\ Len(networks) > 0

(***************************************************************************)
(* C5: a scan whose network-list command fails leaves the Store's network  *)
(* list as it was; the list is replaced only when that command succeeded.  *)
(* (The code replaces it by the empty list: TLC finds this violated.)      *)
(***************************************************************************)
C5_FailedScanKeepsNetworks ==
    [][IsScan(call')
        => /\ (ScanRan(call') /\ ~ExitedZero(ScanListExec(call'))) => networks' = networks
           /\ networks' # networks => (ScanRan(call') /\ ExitedZero(ScanListExec(call')))]_vars

(***************************************************************************)
(* C6: device refresh is idempotent and does not accumulate: the device    *)
(* list after a refresh is the one the same command result yields from the *)
(* empty Store, whatever the Store held before, and a second refresh with  *)
(* the same command result leaves the list as the first left it.           *)
(***************************************************************************)
C6_RefreshIdempotent ==
    [][IsRefresh(call')
        => /\ devices' = get_devices(<<>>, RefreshExec(call')).devices
           /\ (IsRefresh(call) /\ call.events = call'.events) => devices' = devices]_vars

\* A refresh that read a listing with data rows.
C6_Witness ==
    /\ IsRefresh(call)
    /\ ExitedZero(RefreshExec(call))
    /\ Len(RefreshExec(call).rows) = 2
    /\ Len(devices) = 2

(***************************************************************************)
(* C7, as stated: for a device-list text of the 3 header lines followed by *)
(* N >= 0 data rows, the parsed list holds exactly one Device per row with *)
(* at least 3 whitespace-separated tokens, in row order.  (A row with 3    *)
(* tokens that begins with "-" yields no Device: TLC finds this violated.) *)
(***************************************************************************)
C7_OneDevicePerThreeTokenRow ==
    (IsRefresh(call) /\ ExitedZero(RefreshExec(call))) =>
        LET want == SelectSeq(RefreshExec(call).rows, HasThreeTokens)
        IN  /\ Len(devices) = Len(want)
            /\ \A k \in 1..Len(want) :
                  /\ devices[k].name = SplitWS(want[k])[1]
                  /\ devices[k].type = SplitWS(want[k])[2]

(***************************************************************************)
(* C7, amended: the parsed list holds exactly one Device per data row that *)
(* has at least 3 whitespace-separated tokens and does not begin with "-", *)
(* in row order, and no Device for any other row.                          *)
(***************************************************************************)
C7_OneDevicePerAcceptedRow ==
    (IsRefresh(call) /\ ExitedZero(RefreshExec(call))) =>
        LET want == SelectSeq(RefreshExec(call).rows, HasThreeTokensNoDash)
        IN  /\ Len(devices) = Len(want)
            /\ \A k \in 1..Len(want) :
                  /\ devices[k].name = SplitWS(want[k])[1]
                  /\ devices[k].type = SplitWS(want[k])[2]

\* A listing of two rows, one of them with one or two tokens, parsed into
\* one Device.
C7_Witness ==
    /\ IsRefresh(call)
    /\ ExitedZero(RefreshExec(call))
    /\ Len(RefreshExec(call).rows) = 2
    /\ \E r \in Range(RefreshExec(call).rows) : Len(SplitWS(r)) \in {1, 2}
    /\ Len(devices) = 1

(***************************************************************************)
(* C8: for every parsed device row, powered is true if and only if one of  *)
(* the row's whitespace-separated tokens is "on".  (The code tests whether *)
(* the line contains the characters "on", which "station" does: TLC finds  *)
(* this violated.)                                                         *)
(***************************************************************************)
C8_PoweredIffOnToken ==
    (IsRefresh(call) /\ ExitedZero(RefreshExec(call))) =>
        LET kept == SelectSeq(RefreshExec(call).rows, DeviceLineAccepted)
        IN  /\ Len(devices) = Len(kept)
            /\ \A k \in 1..Len(kept) :
                  devices[k].powered <=> ("on" \in Range(SplitWS(kept[k])))

(***************************************************************************)
(* C9, as stated: a network row with a token "-67dBm" parses to            *)
(* signalStrength 67 (in general a token <integer>dBm gives the absolute   *)
(* value of the integer), and a row with no token containing "dBm", or     *)
(* whose dBm tokens do not parse, gives 50.  (The last parsable dBm token  *)
(* of the row decides: TLC finds this violated.)                           *)
(***************************************************************************)
C9_SignalOfAnyDbmToken ==
    (ScanRan(call) /\ ExitedZero(ScanListExec(call))) =>
        LET kept == SelectSeq(ScanListExec(call).rows, NetworkLineAccepted)
        IN  /\ Len(networks) = Len(kept)
            /\ \A k \in 1..Len(kept) :
                  LET toks == SplitWS(kept[k])
                      dbm == {i \in 1..Len(toks) : Contains(toks[i], "dBm")}
                  IN  /\ "-67dBm" \in Range(toks) => networks[k].signal_strength = 67
                      /\ "-55dBm" \in Range(toks) => networks[k].signal_strength = 55
                      /\ (\A i \in dbm : ~ParseInt(Replace(toks[i], "dBm", "")).ok)
                            => networks[k].signal_strength = 50

(***************************************************************************)
(* C9, amended: signalStrength is the absolute value of the integer of the *)
(* last token of the row that contains "dBm" and parses as an integer once *)
(* "dBm" is removed, and 50 when the row has no such token; so a row whose *)
(* only token containing "dBm" is "-67dBm" gives 67.                       *)
(***************************************************************************)
C9_SignalOfLastDbmToken ==
    (ScanRan(call) /\ ExitedZero(ScanListExec(call))) =>
        LET kept == SelectSeq(ScanListExec(call).rows, NetworkLineAccepted)
        IN  /\ Len(networks) = Len(kept)
            /\ \A k \in 1..Len(kept) :
                  LET toks == SplitWS(kept[k])
                      dbm == {i \in 1..Len(toks) : Contains(toks[i], "dBm")}
                      good == {i \in dbm : ParseInt(Replace(toks[i], "dBm", "")).ok}
                      last == CHOOSE i \in good : \A j \in good : j <= i
                  IN  /\ good = {} => networks[k].signal_strength = 50
                      /\ good # {} => networks[k].signal_strength
                                        = Abs(ParseInt(Replace(toks[last], "dBm", "")).val)
                      /\ (dbm # {} /\ \A i \in dbm : toks[i] = "-67dBm")
                            => networks[k].signal_strength = 67

\* A row with two parsable dBm tokens, "-67dBm" first, parsed to the value of
\* the second; and a row without any parsable dBm token, parsed to 50.
C9_Witness ==
    /\ ScanRan(call)
    /\ ExitedZero(ScanListExec(call))
    /\ ScanListExec(call).rows = <<"Mesh -67dBm -40dBm", "Lab PSK xdBm">>
    /\ Len(networks) = 2
    /\ networks[1].signal_strength = 40
    /\ networks[2].signal_strength = 50

(***************************************************************************)
(* C10: every run of the command executor returns a (succeeded, output)    *)
(* pair; succeeded is true exactly when the process ran to completion      *)
(* within the time bound with exit code 0, and then output is its standard *)
(* output; a timeout or a missing binary gives succeeded = false with the  *)
(* description of the failure as output.                                   *)
(***************************************************************************)
C10_ExecutorResult ==
    \A i \in 1..Len(call.events) :
        call.events[i].kind = "run" =>
            LET e == call.events[i].exec
                r == call.events[i].result
            IN  /\ Len(r) = 2
                /\ r[1] \in BOOLEAN
                /\ r[1] <=> ExitedZero(e)
                /\ (e.started /\ e.duration <= Timeout) => r[2] = e.stdout
                /\ (e.started /\ e.duration > Timeout)
                      => (~r[1] /\ Contains(r[2], "timed out after 10 seconds"))
                /\ ~e.started => (~r[1] /\ Contains(r[2], "No such file or directory"))

\* A call in which one command ran past the time bound and another could
\* not be started or exited non-zero.
C10_Witness ==
    /\ \E i \in 1..Len(call.events) :
          /\ call.events[i].kind = "run"
          /\ call.events[i].exec.started
          /\ call.events[i].exec.duration > Timeout
    /\ \E i \in 1..Len(call.events) :
          /\ call.events[i].kind = "run"
          /\ ~call.events[i].result[1]
          /\ call.events[i].exec.duration <= Timeout

(***************************************************************************)
(* C11. In every connect call the password reaches the utility only as the *)
(* input of the connect command: that command's argument list is exactly   *)
(* iwctl station <device> connect <ssid>, its input is the password, and   *)
(* no command of the call (connect or the verification refresh) has the    *)
(* password among its arguments or, after the first, as its input.         *)
(***************************************************************************)
\* The commands run during a call, in order.
RunEvents(c) == SelectSeq(c.events, LAMBDA e : e.kind = "run")

C11_PasswordOnlyAsInput ==
    IsConnect(call) =>
        LET runs == RunEvents(call)
            device == call.args[1]
            ssid == call.args[2]
            password == call.args[3]
        IN  /\ Len(runs) >= 1
            /\ call.events[1] = runs[1]
            /\ runs[1].argv = <<"iwctl", "station", device, "connect", ssid>>
            /\ runs[1].input = password
            /\ \A i \in 1..Len(runs) :
                    /\ Range(password) \cap Range(runs[i].argv) = {}
                    /\ i > 1 => runs[i].input = NoInput

\* A connect call with a password that also ran the verification refresh.
C11_Witness ==
    /\ IsConnect(call)
    /\ call.args[3] = <<"secret">>
    /\ Len(RunEvents(call)) = 2

(***************************************************************************)
(* C12. The power operation looks the device up by name in the stored      *)
(* device list: with no stored device of that name it returns False and    *)
(* runs no command; otherwise it runs exactly one set-property command and *)
(* returns whether that command exited with 0.  In both cases the stored   *)
(* device list and network list are the ones from before the call.         *)
(***************************************************************************)
IsToggle(c) == c.op = "toggle_device_power"

\* Some stored device has this name.
Stored(devs, device) == \E i \in 1..Len(devs) : devs[i].name = device

C12_PowerLooksUpStoreOnly ==
    [][IsToggle(call') =>
        LET device == call'.args[1]
            events == call'.events
        IN  /\ devices' = devices
            /\ networks' = networks
            /\ ~Stored(devices, device) =>
                    /\ events = <<>>
                    /\ call'.ret = FALSE
            /\ Stored(devices, device) =>
                    /\ Len(events) = 1
                    /\ events[1].kind = "run"
                    /\ SubSeq(events[1].argv, 1, 5) =
                           <<"iwctl", "device", device, "set-property", "Powered">>
                    /\ Len(events[1].argv) = 6
                    /\ call'.ret = ExitedZero(events[1].exec)]_vars

\* The power operation found the device and its command succeeded.
C12_Witness ==
    /\ IsToggle(call)
    /\ Stored(devices, call.args[1])
    /\ Len(call.events) = 1
    /\ call.ret = TRUE

(***************************************************************************)
(* C13. A scan called without a device name uses the first stored device,  *)
(* in stored order, that is a station and powered: both of its commands    *)
(* name that device.  With no such device in the stored list the scan      *)
(* returns the empty list (its only way to report that it did nothing),    *)
(* runs no command and leaves the stored network list as it was.           *)
(***************************************************************************)
\* The positions of the powered stations in a device list.
PoweredStations(devs) ==
    {i \in 1..Len(devs) : devs[i].type = "station" /\ devs[i].powered}

Least(S) == CHOOSE i \in S : \A j \in S : i <= j

IsStatus(c) == c.op = "update_status"

ConnectedDevices(devs) == {i \in 1..Len(devs) : devs[i].connected}

\* The text naming a device's connection.
ConnectionInfo(dev) == dev.network \o " on " \o dev.name

C14_StatusOfFirstConnected ==
    IsStatus(call) =>
        /\ (connection_status = "disconnected") <=> (ConnectedDevices(devices) = {})
        /\ ConnectedDevices(devices) = {} => active_connection = ""
        /\ ConnectedDevices(devices) # {} =>
              LET first == devices[Least(ConnectedDevices(devices))]
              IN  /\ connection_status = "connected to " \o ConnectionInfo(first)
                  /\ active_connection = ConnectionInfo(first)

\* Two connected devices of different names and networks are stored, and
\* the status names the first.
C14_Witness ==
    /\ IsStatus(call)
    /\ \E i, j \in ConnectedDevices(devices) :
            /\ i < j
            /\ ConnectionInfo(devices[i]) # ConnectionInfo(devices[j])
            /\ devices[i].name # devices[j].name
            /\ active_connection = ConnectionInfo(devices[i])

(***************************************************************************)
(* C15: a connect call that returns success leaves the device named by its *)
(* device argument connected to the ssid in the stored list.  (The code    *)
(* accepts any stored device connected to the ssid: TLC finds this         *)
(* violated.)                                                              *)
(***************************************************************************)
C15_SuccessMeansNamedDeviceConnected ==
    (IsConnect(call) /\ call.ret[1]) =>
        \E i \in 1..Len(devices) :
            /\ devices[i].name = call.args[1]
            /\ devices[i].connected
            /\ devices[i].network = call.args[2]

(***************************************************************************)
(* C16: a device whose row of the device listing has the token             *)
(* "disconnected", and no token "connected", is stored by the refresh with *)
(* connected = FALSE, and an update_status after that refresh does not     *)
(* name it as the connection.  (The code tests whether the line contains   *)
(* the characters "connected", which "disconnected" does: TLC finds this   *)
(* violated.)                                                              *)
(***************************************************************************)
ReportsDisconnected(row) ==
    /\ "disconnected" \in Range(SplitWS(row))
    /\ "connected" \notin Range(SplitWS(row))

C16_DisconnectedRowNotConnected ==
    [][/\ (IsRefresh(call') /\ ExitedZero(RefreshExec(call'))) =>
            LET kept == SelectSeq(RefreshExec(call').rows, DeviceLineAccepted)
            IN  \A k \in 1..Len(kept) :
                    (k <= Len(devices') /\ ReportsDisconnected(kept[k]))
                        => ~devices'[k].connected
       /\ (IsStatus(call') /\ IsRefresh(call) /\ ExitedZero(RefreshExec(call))) =>
            LET kept == SelectSeq(RefreshExec(call).rows, DeviceLineAccepted)
            IN  \A k \in 1..Len(kept) :
                    (k <= Len(devices') /\ ReportsDisconnected(kept[k]))
                        => active_connection' # ConnectionInfo(devices'[k])]_vars

(***************************************************************************)
(* C19. In every stored device list, a device whose connected flag is      *)
(* FALSE has the empty network field: a non-empty network field occurs     *)
(* only on devices whose connected flag is TRUE.                           *)
(***************************************************************************)
C19_NetworkOnlyWhenConnected ==
    \A i \in 1..Len(devices) :
        ~devices[i].connected => devices[i].network = ""

\* A refresh read a row of four tokens that does not say connected, and
\* stored its device with connected = FALSE.
C19_Witness ==
    /\ IsRefresh(call)
    /\ ExitedZero(RefreshExec(call))
    /\ \E r \in Range(RefreshExec(call).rows) :
            /\ Len(SplitWS(r)) > 3
            /\ ~Contains(r, "connected")
            /\ \E i \in 1..Len(devices) :
                    /\ devices[i].name = SplitWS(r)[1]
                    /\ ~devices[i].connected
                    /\ devices[i].network = ""

(***************************************************************************)
(* C17. In a scan that has a target device the steps come in one order:    *)
(* the scan command, then the delay of ScanDelay seconds, then the         *)
(* network-list command; the stored network list is written only once the  *)
(* network-list command has returned; and the scan never ends after the    *)
(* scan command alone: the delay and the network-list command follow       *)
(* whether the scan command succeeded or failed.                           *)
(***************************************************************************)
InScan(frm) == frm.op = "scan_networks"

\* The trace of a scan is a prefix of: scan command, delay, network-list command.
ScanTraceOrdered(frm) ==
    LET events == frm.events
    IN  /\ Len(events) <= 3
        /\ Len(events) >= 1 =>
              /\ events[1].kind = "run"
              /\ events[1].argv = <<"iwctl", "station", frm.target, "scan">>
        /\ Len(events) >= 2 => events[2] = SleepEvent(ScanDelay)
        /\ Len(events) >= 3 =>
              /\ events[3].kind = "run"
              /\ events[3].argv = <<"iwctl", "station", frm.target, "get-networks">>

C17_ScanStepsInOrder ==
    [][/\ InScan(frame') => ScanTraceOrdered(frame')
       /\ (InScan(frame) /\ Len(frame.events) < 3) =>
            /\ networks' = networks
            /\ InScan(frame')
            /\ Len(frame'.events) = Len(frame.events) + 1
       /\ networks' # networks =>
            /\ InScan(frame)
            /\ Len(frame.events) = 3]_vars

\* The scan command failed, the delay has passed and the network-list
\* command has returned.
C17_Witness ==
    /\ InScan(frame)
    /\ Len(frame.events) = 3
    /\ ~frame.events[1].result[1]
    /\ frame.events[3].result[1]

(***************************************************************************)
(* C18. The stored lists are replaced whole: whenever the stored device    *)
(* list changes, the step is the assignment that ends a refresh and the    *)
(* new value is the complete list parsed from the output of that refresh;  *)
(* whenever the stored network list changes, the step is the assignment    *)
(* that ends a scan and the new value is the complete list of that scan.   *)
(* So a reader at any step in between sees the complete list from before   *)
(* the operation, and afterwards the complete new one.                     *)
(***************************************************************************)
LastEvent(frm) == frm.events[Len(frm.events)]

\* The complete list of the listing a command printed (empty when it failed).
WholeDeviceList(ev) == IF ev.result[1] THEN ParseDeviceText(ev.result[2]) ELSE <<>>

WholeNetworkList(ev) == IF ev.result[1] THEN ParseNetworkText(ev.result[2]) ELSE <<>>

C18_StoreReplacedWhole ==
    [][/\ devices' # devices =>
            /\ frame.op \in {"get_devices", "connect_to_network"}
            /\ frame.pc = "gd_loop"
            /\ frame.i > Len(frame.lines)
            /\ (frame'.op = "idle" \/ frame'.pc = "cn_verify")
            /\ devices' = WholeDeviceList(LastEvent(frame))
       /\ networks' # networks =>
            /\ InScan(frame)
            /\ frame.pc = "sn_loop"
            /\ frame' = Idle
            /\ networks' = WholeNetworkList(LastEvent(frame))]_vars

\* A refresh has read one of the two rows of its listing: the local list
\* holds one device and the stored list is still the one from before.
C18_Witness ==
    /\ frame.op = "get_devices"
    /\ frame.pc = "gd_loop"
    /\ frame.i = 2
    /\ Len(frame.acc) = 1
    /\ Len(frame.lines) = 3
    /\ Len(devices) = 2
    /\ devices # frame.acc

(***************************************************************************)
(* C20: while a connect call is in flight, from the connect command until  *)
(* the verification has completed, the connection state shown is           *)
(* "connecting".  (The code never sets it: connection_status keeps the     *)
(* value of the last update_status.  TLC finds this violated.)             *)
(***************************************************************************)
\* class ConnectionState(Enum)
ConnectionState == {"disconnected", "connecting", "connected"}

InConnect(frm) == frm.op = "connect_to_network"

C20_ConnectingDuringConnect ==
    InConnect(frame) => connection_status = "connecting"

(***************************************************************************)
(* C21: a power toggle that follows a refresh asks for the opposite of the *)
(* power state the refresh's row reported for the device: Powered on when  *)
(* the row says off, Powered off when the row says on.  (Every station row *)
(* is stored as powered, "station" containing the characters "on", so the  *)
(* toggle of a station reported off asks for off: TLC finds this           *)
(* violated.)                                                              *)
(***************************************************************************)
\* The row says the device is powered on.
ReportsOn(row) == "on" \in Range(SplitWS(row))

C21_ToggleRequestsOpposite ==
    [][(IsToggle(call') /\ IsRefresh(call) /\ ExitedZero(RefreshExec(call))) =>
        LET device == call'.args[1]
            kept == SelectSeq(RefreshExec(call).rows, DeviceLineAccepted)
            hits == {k \in 1..Len(kept) : SplitWS(kept[k])[1] = device}
        IN  hits # {} =>
              /\ Len(call'.events) = 1
              /\ call'.events[1].argv[6] =
                    IF ReportsOn(kept[Least(hits)]) THEN "off" ELSE "on"]_vars

(***************************************************************************)
(* C24: a row of the network listing whose first token is the marker ">"   *)
(* and whose second token is the network name is parsed into a network     *)
(* with connected = TRUE and ssid equal to the network name, never the     *)
(* marker.  (The code takes the first token of the row as the ssid: TLC    *)
(* finds this violated.)                                                   *)
(***************************************************************************)
\* The row carries the marker as a token of its own before the name.
MarkedRow(row) == Len(SplitWS(row)) >= 2 /\ SplitWS(row)[1] = ">"

C24_MarkedRowKeepsName ==
    (ScanRan(call) /\ ExitedZero(ScanListExec(call))) =>
        LET kept == SelectSeq(ScanListExec(call).rows, NetworkLineAccepted)
        IN  /\ Len(networks) = Len(kept)
            /\ \A k \in 1..Len(kept) :
                  MarkedRow(kept[k]) =>
                      /\ networks[k].connected
                      /\ networks[k].ssid = SplitWS(kept[k])[2]
                      /\ networks[k].ssid # ">"

(***************************************************************************)
(* C22: on the network-list and the device-list screen, whatever the       *)
(* length of the list, Enter runs the action of the item displayed at the  *)
(* selected index: a rescan exactly when that item is "Rescan Networks",   *)
(* the return to the main menu exactly when it is "Back to Main Menu".     *)
(* (With an empty list the screens show placeholder items the handlers do  *)
(* not count: TLC finds this violated.)                                    *)
(***************************************************************************)
EnterOnList(h) == h.key = "ENTER" /\ h.screen \in {"networks", "devices"}

C22_EnterRunsDisplayedItem ==
    EnterOnList(handled) =>
        /\ (handled.action = "rescan") <=> (handled.item = "Rescan Networks")
        /\ (handled.action = "back") <=> (handled.item = "Back to Main Menu")

(***************************************************************************)
(* C23. Through every sequence of keys, refreshes and scans, with the      *)
(* stored lists growing and shrinking between the keys, the selected index *)
(* is never negative, and every time a handler indexes the stored network  *)
(* or device list the index is within the bounds the list has then.        *)
(***************************************************************************)
C23_IndexWithinBounds ==
    /\ selected_index >= 0
    /\ \A k \in 1..Len(handled.accesses) :
          /\ handled.accesses[k].index >= 0
          /\ handled.accesses[k].index < handled.accesses[k].len

\* Enter has read the second item of a stored list of two, and the list
\* has since shrunk under a selection that stayed.
C23_Witness ==
    /\ handled.key = "ENTER"
    /\ Len(handled.accesses) = 1
    /\ handled.accesses[1].index = 1
    /\ handled.accesses[1].len = 2
    /\ current_screen = "devices"
    /\ selected_index >= Len(devices)

====
